---- MODULE Spec2Model ----
(***************************************************************************)
(* Model of vb_models_cvr/petco2.py: the CvrPetCo2Model forward model.     *)
(*                                                                         *)
(* The model object is built from a physiological recording (phys_data)   *)
(* and the model options; the constructor runs _preproc_co2, which turns   *)
(* the recording into the calibrated curve co2_mmHg, its difference array  *)
(* co2_diff and the reference levels normocap / hypercap.  evaluate then   *)
(* samples the curve at the requested timepoints.                          *)
(*                                                                         *)
(* Numbers.  The program computes in floating point.  Here every real is  *)
(* an exact rational <<n, d>> in lowest terms with d > 0; <<0, 0>> is NaN *)
(* (numpy's mean of an empty array).  Rounding error of float32/float64   *)
(* is not modelled.                                                        *)
(*                                                                         *)
(* Indices.  Python indices are 0-based and kept 0-based in the state     *)
(* (posmax, t_base_idx); sequences are 1-based, so element i of a Python  *)
(* array a is a[i + 1].                                                    *)
(***************************************************************************)
EXTENDS Integers, Sequences, FiniteSets, TLC

VARIABLES
    pc,             \* "new" before __init__, then "ready" or "failed"
    phys_data,      \* rows <<time, petco2, peto2, trig>> of the data file
    options,        \* the ModelOption values given to the constructor
    error,          \* exception raised by __init__ ("none" if it returned)
    attrs,          \* names of the derived attributes set on the object
    petco2_trim,    \* self.petco2_trim
    posmax,         \* peak position of each search window (local)
    winmax,         \* peak value of each search window (local)
    petco2_resamp,  \* self.petco2_resamp
    co2_mmHg,       \* self.co2_mmHg
    co2_diff,       \* self.co2_diff
    normocap,       \* self.normocap
    hypercap,       \* self.hypercap
    ev              \* the last evaluate call: its arguments, locals, result

vars == <<pc, phys_data, options, error, attrs, petco2_trim, posmax, winmax,
          petco2_resamp, co2_mmHg, co2_diff, normocap, hypercap, ev>>

-----------------------------------------------------------------------------
(* Bounds of the model *)

\* number of rows of the recording
NumSamples == 7
\* number of rows of one breath of the recorded PETCO2 trace
BreathRows == 3
\* evaluate is called with timepoints in -1 .. MaxTime, in steps of 1/2
MaxTime == 3

-----------------------------------------------------------------------------
(* Rational arithmetic *)

Abs(x) == IF x < 0 THEN -x ELSE x
Min(a, b) == IF a <= b THEN a ELSE b
Max(a, b) == IF a >= b THEN a ELSE b

RECURSIVE GCD(_, _)
GCD(a, b) == IF b = 0 THEN a ELSE GCD(b, a % b)

NaN == <<0, 0>>
IsNaN(r) == r[2] = 0

Rat(n, d) ==
    IF d = 0 THEN NaN
    ELSE LET s == IF d < 0 THEN -1 ELSE 1
             g == GCD(Abs(n), Abs(d))
         IN  <<(s * n) \div g, (s * d) \div g>>

RInt(n) == <<n, 1>>
RNeg(a) == <<-a[1], a[2]>>
RAdd(a, b) ==
    IF a[2] = 0 \/ b[2] = 0 THEN NaN
    ELSE LET g == GCD(a[2], b[2])
         IN  Rat(a[1] * (b[2] \div g) + b[1] * (a[2] \div g), (a[2] \div g) * b[2])
RSub(a, b) == RAdd(a, RNeg(b))
RMul(a, b) == Rat(a[1] * b[1], a[2] * b[2])
RDiv(a, b) == Rat(a[1] * b[2], a[2] * b[1])
RLt(a, b) == a[1] * b[2] < b[1] * a[2]
RLe(a, b) == a[1] * b[2] <= b[1] * a[2]

\* floor(r): the largest integer <= r
RFloor(r) == IF r[1] >= 0 THEN r[1] \div r[2]
             ELSE -(((-r[1]) + r[2] - 1) \div r[2])

\* int(r), tf.cast(r, tf.int32): truncation towards zero
RTrunc(r) == IF r[1] >= 0 THEN r[1] \div r[2] ELSE -((-r[1]) \div r[2])

RECURSIVE RSum(_)
RSum(s) == IF s = <<>> THEN RInt(0) ELSE RAdd(Head(s), RSum(Tail(s)))

-----------------------------------------------------------------------------
(* Python and numpy helpers *)

\* round(r) of Python 3: to the nearest integer, ties to the even one
PyRound(r) ==
    LET f == RFloor(r)
        twice == RMul(RInt(2), RSub(r, RInt(f)))
    IN  IF RLt(twice, RInt(1)) THEN f
        ELSE IF RLt(RInt(1), twice) THEN f + 1
        ELSE IF f % 2 = 0 THEN f ELSE f + 1

\* a[i] is defined for -n <= i < n; anything else raises IndexError
ValidIndex(i, n) == -n <= i /\ i < n

\* a[i] for a valid Python index i (a negative i counts from the end)
PyGet(a, i) == IF i < 0 THEN a[i + Len(a) + 1] ELSE a[i + 1]

\* a slice bound, clamped as Python clamps it
SliceBound(i, n) == IF i < 0 THEN Max(i + n, 0) ELSE Min(i, n)

\* a[lo:hi]
PySlice(a, lo, hi) ==
    LET l == SliceBound(lo, Len(a))
        h == SliceBound(hi, Len(a))
    IN  IF l >= h THEN <<>> ELSE SubSeq(a, l + 1, h)

\* a[mask]: the elements of a at the positions where mask is TRUE
RECURSIVE Masked(_, _)
Masked(a, mask) ==
    IF a = <<>> THEN <<>>
    ELSE IF Head(mask) THEN <<Head(a)>> \o Masked(Tail(a), Tail(mask))
    ELSE Masked(Tail(a), Tail(mask))

\* np.mean: NaN for an empty array
RMean(a) == IF a = <<>> THEN NaN ELSE RDiv(RSum(a), RInt(Len(a)))

\* np.linspace(start, stop, num)
Linspace(start, stop, num) ==
    [k \in 1..num |->
        IF num = 1 THEN start
        ELSE RAdd(start, RDiv(RMul(RInt(k - 1), RSub(stop, start)), RInt(num - 1)))]

-----------------------------------------------------------------------------
(* _preproc_co2: trigger timing and mechanical-delay trim *)

Column(data, k) == [i \in 1..Len(data) |-> data[i][k]]

\* TrigTime with the comparison >= in place of >
TrigTimeAtThreshold(timings, trig, threshold_trig) ==
    Masked(timings, [i \in 1..Len(trig) |-> RLe(RInt(threshold_trig), trig[i])])

\* trig_time = self.timings[self.trig > self.threshold_trig]
TrigTime(timings, trig, threshold_trig) ==
    Masked(timings, [i \in 1..Len(trig) |-> RLt(RInt(threshold_trig), trig[i])])

\* trig_time_diff = trig_time[2:-1] - trig_time[1:-2]
TrigTimeDiff(trig_time) ==
    LET a == PySlice(trig_time, 2, -1)
        b == PySlice(trig_time, 1, -2)
    IN  [i \in 1..Len(a) |-> RSub(a[i], b[i])]

\* trim_time_begin = trig_time[1] - self.delay
TrimTimeBegin(trig_time, delay) == RSub(PyGet(trig_time, 1), RInt(delay))

\* self.petco2_trim = self.petco2[self.timings >= trim_time_begin]
Petco2Trim(petco2, timings, trim_time_begin) ==
    Masked(petco2, [i \in 1..Len(timings) |-> RLe(trim_time_begin, timings[i])])

-----------------------------------------------------------------------------
(* _preproc_co2: respiratory period and search windows *)

\* baseline_vols = int(self.baseline * self.samp_rate)
BaselineVols(baseline, samp_rate) == baseline * samp_rate

\* len(baseline_fft): the FFT is taken of petco2_trim[:baseline_vols]
NFft(trim, baseline_vols) == Len(PySlice(trim, 0, baseline_vols))

\* len(p1), p1 = p2[:int(baseline_vols/2)+1], p2 as long as the FFT
P1Len(trim, baseline_vols) ==
    Len(PySlice([i \in 1..NFft(trim, baseline_vols) |-> 0], 0, (baseline_vols \div 2) + 1))

\* f = np.linspace(0, samp_rate/2, int(baseline_vols/2)+1); harm = f[pkloc]
Harm(pkloc, samp_rate, baseline_vols) ==
    PyGet(Linspace(RInt(0), Rat(samp_rate, 2), (baseline_vols \div 2) + 1), pkloc)

\* resp_period = round(1/harm)
RespPeriod(harm) == PyRound(RDiv(RInt(1), harm))

\* nsearch_vols = (resp_period+1)*self.samp_rate
NSearchVols(resp_period, samp_rate) == (resp_period + 1) * samp_rate

\* windows = int(np.floor(self.petco2_trim.shape[0]/nsearch_vols))
Windows(trim, nsearch_vols) == Len(trim) \div nsearch_vols

-----------------------------------------------------------------------------
(* _preproc_co2: peak of each window *)

\* the inner loop over j of the peak search in window i, from step j on;
\* wp = <<winmax[i], posmax[i]>> so far
RECURSIVE WindowScan(_, _, _, _, _)
WindowScan(trim, nsearch_vols, i, j, wp) ==
    IF j >= nsearch_vols THEN wp
    ELSE LET v == PyGet(trim, i * nsearch_vols + j)
         IN  IF j = 0 \/ RLt(wp[1], v)
             THEN WindowScan(trim, nsearch_vols, i, j + 1, <<v, i * nsearch_vols + j>>)
             ELSE WindowScan(trim, nsearch_vols, i, j + 1, wp)

\* <<winmax[i], posmax[i]>> for every window i
WindowPeaks(trim, nsearch_vols, windows) ==
    [w \in 1..windows |-> WindowScan(trim, nsearch_vols, w - 1, 0, <<RInt(0), 0>>)]

-----------------------------------------------------------------------------
(* _preproc_co2: the resampled envelope *)

\* the inner loop over g for the pair of windows x, x+1: a ramp from
\* winmax[x] at posmax[x] written over resamp[posmax[x] .. posmax[x+1]]
Ramp(resamp, pm, wm, x) ==
    LET dist_c == PyGet(pm, x + 1) - PyGet(pm, x)
        step_c == RSub(PyGet(wm, x + 1), PyGet(wm, x))
        ramp_c == RDiv(step_c, RInt(dist_c))
    IN  [k \in 1..Len(resamp) |->
            LET g == (k - 1) - PyGet(pm, x)
            IN  IF 0 <= g /\ g <= dist_c
                THEN RAdd(PyGet(wm, x), RMul(ramp_c, RInt(g)))
                ELSE resamp[k]]

\* the loop over x in range(windows-1), from x on
RECURSIVE RampLoop(_, _, _, _)
RampLoop(resamp, pm, wm, x) ==
    IF x >= Len(pm) - 1 THEN resamp
    ELSE RampLoop(Ramp(resamp, pm, wm, x), pm, wm, x + 1)

\* resamp[:posmax[0]] = resamp[posmax[0]]
PadStart(resamp, pm) ==
    LET v == PyGet(resamp, PyGet(pm, 0))
    IN  [k \in 1..Len(resamp) |-> IF k - 1 < PyGet(pm, 0) THEN v ELSE resamp[k]]

\* resamp[posmax[-1]:] = resamp[posmax[-1]]
PadEnd(resamp, pm) ==
    LET v == PyGet(resamp, PyGet(pm, -1))
    IN  [k \in 1..Len(resamp) |-> IF k - 1 >= PyGet(pm, -1) THEN v ELSE resamp[k]]

\* self.petco2_resamp after lines 185-196, for at least one window
Petco2Resamp(trim, pm, wm) ==
    PadEnd(PadStart(RampLoop([k \in 1..Len(trim) |-> RInt(0)], pm, wm, 0), pm), pm)

-----------------------------------------------------------------------------
(* _preproc_co2: downsampling, calibration, differences, reference levels *)

\* block = round(tr*self.samp_rate)
Block(tr, samp_rate) == PyRound(RMul(tr, RInt(samp_rate)))

\* the index read for volume i: block * i + block-1
EvIndex(block, i) == block * i + block - 1

\* ev_co2[i] = self.petco2_resamp[block * i + block-1]
EvCo2(resamp, block, vols) == [i \in 1..vols |-> PyGet(resamp, EvIndex(block, i - 1))]

\* 1.33322387415 mbar per mmHg, kept to four significant digits
MbarPerMmHg == Rat(1333, 1000)

\* self.air_pressure_mmhg = self.air_pressure/1.33322387415
AirPressureMmHg(air_pressure) == RDiv(RInt(air_pressure), MbarPerMmHg)

\* self.co2_mmHg = (ev_co2 * self.air_pressure_mmhg) / 100
Co2MmHg(ev_co2, air_pressure_mmhg) ==
    [i \in 1..Len(ev_co2) |-> RDiv(RMul(ev_co2[i], air_pressure_mmhg), RInt(100))]

\* Co2Diff taken backwards: element i is curve[i] - curve[i-1], the first 0
Co2DiffBackward(curve) ==
    [i \in 1..Len(curve) |->
        IF i > 1 THEN RSub(curve[i], curve[i - 1]) ELSE RInt(0)]

\* Co2Diff with the last element wrapping round to the first of the curve
Co2DiffWrapped(curve) ==
    [i \in 1..Len(curve) |->
        IF i < Len(curve) THEN RSub(curve[i + 1], curve[i])
        ELSE RSub(curve[1], curve[i])]

\* self.co2_diff = zeros(len); self.co2_diff[:-1] = co2_mmHg[1:] - co2_mmHg[:-1]
Co2Diff(curve) ==
    [i \in 1..Len(curve) |->
        IF i < Len(curve) THEN RSub(curve[i + 1], curve[i]) ELSE RInt(0)]

\* self.normocap = np.mean(self.co2_mmHg[:int(baseline_vols+self.delay)])
Normocap(curve, baseline, delay, tr) ==
    RMean(PySlice(curve, 0, RTrunc(RAdd(RDiv(RInt(baseline), tr), RInt(delay)))))

\* self.hypercap: the mean of the second half of the two ON blocks
Hypercap(curve, baseline, delay, blocksize_on, blocksize_off, tr) ==
    LET baseline_vols == RDiv(RInt(baseline), tr)
        on_vols == RDiv(RInt(blocksize_on), tr)
        off_vols == RDiv(RInt(blocksize_off), tr)
        half == RDiv(on_vols, RInt(2))
        base == RAdd(baseline_vols, RInt(delay))
        s1 == RTrunc(RAdd(base, half))
        s2 == RTrunc(RAdd(base, on_vols))
        s3 == RTrunc(RAdd(RAdd(RAdd(base, on_vols), off_vols), half))
        s4 == RTrunc(RAdd(RAdd(RAdd(base, on_vols), off_vols), on_vols))
    IN  RMean(PySlice(curve, s1 - 1, s2) \o PySlice(curve, s3 - 1, s4))

-----------------------------------------------------------------------------
(* _preproc_co2 as a whole *)

\* the derived state of an object on which _preproc_co2 has set nothing
Blank ==
    [error |-> "none", attrs |-> {}, petco2_trim |-> <<>>, posmax |-> <<>>,
     winmax |-> <<>>, petco2_resamp |-> <<>>, co2_mmHg |-> <<>>,
     co2_diff |-> <<>>, normocap |-> NaN, hypercap |-> NaN]

\* lines 198-233, reached with the envelope r.petco2_resamp built
PreprocTail(r, o, tr, vols) ==
    IF IsNaN(tr) THEN [r EXCEPT !.error = "ValueError"]       \* round(nan)
    ELSE
    LET block == Block(tr, o.samp_rate)
        n == Len(r.petco2_resamp)
    IN
    IF \E i \in 0..(vols - 1) : ~ValidIndex(EvIndex(block, i), n)
    THEN [r EXCEPT !.error = "IndexError"]                    \* line 203
    ELSE
    LET curve == Co2MmHg(EvCo2(r.petco2_resamp, block, vols),
                         AirPressureMmHg(o.air_pressure))
    IN  [r EXCEPT !.attrs = @ \cup {"co2_mmHg", "co2_diff", "normocap", "hypercap"},
                  !.co2_mmHg = curve,
                  !.co2_diff = Co2Diff(curve),
                  !.normocap = Normocap(curve, o.baseline, o.delay, tr),
                  !.hypercap = Hypercap(curve, o.baseline, o.delay,
                                        o.blocksize_on, o.blocksize_off, tr)]

\* lines 152-196, reached with r.petco2_trim set; pkloc is the position of
\* the largest component of the baseline spectrum, which is not computed
\* here: every position np.argmax can return is allowed
PreprocWindows(r, o, tr, vols, pkloc) ==
    LET trim == r.petco2_trim
        baseline_vols == BaselineVols(o.baseline, o.samp_rate)
    IN
    IF NFft(trim, baseline_vols) = 0
    THEN [r EXCEPT !.error = "ValueError"]                    \* fft of nothing
    ELSE IF P1Len(trim, baseline_vols) <= 1
    THEN [r EXCEPT !.error = "ValueError"]                    \* argmax of nothing
    ELSE
    LET harm == Harm(pkloc, o.samp_rate, baseline_vols)
        nsearch_vols == NSearchVols(RespPeriod(harm), o.samp_rate)
        windows == Windows(trim, nsearch_vols)
        peaks == WindowPeaks(trim, nsearch_vols, windows)
        wm == [w \in 1..windows |-> peaks[w][1]]
        pm == [w \in 1..windows |-> peaks[w][2]]
        r2 == [r EXCEPT !.posmax = pm, !.winmax = wm,
                        !.attrs = @ \cup {"petco2_resamp"}]
    IN
    IF windows = 0
    THEN [r2 EXCEPT !.petco2_resamp = [k \in 1..Len(trim) |-> RInt(0)],
                    !.error = "IndexError"]                   \* posmax[0]
    ELSE PreprocTail([r2 EXCEPT !.petco2_resamp = Petco2Resamp(trim, pm, wm)],
                     o, tr, vols)

\* _preproc_co2 on the recording data with the options o
PreprocCo2(data, o, pkloc) ==
    LET timings == Column(data, 1)
        petco2 == Column(data, 2)
        trig == Column(data, 4)
        trig_time == TrigTime(timings, trig, o.threshold_trig)
        tr == RMean(TrigTimeDiff(trig_time))
        vols == Len(trig_time) - 1
    IN
    IF ~ValidIndex(1, Len(trig_time))
    THEN [Blank EXCEPT !.error = "IndexError"]                \* trig_time[1]
    ELSE PreprocWindows(
            [Blank EXCEPT !.attrs = {"petco2_trim"},
                          !.petco2_trim = Petco2Trim(petco2, timings,
                                              TrimTimeBegin(trig_time, o.delay))],
            o, tr, vols, pkloc)

\* the positions np.argmax(p1[1:]) + 1 can take for this recording (one
\* placeholder when the constructor fails before the spectrum is searched)
PkLocs(data, o) ==
    LET timings == Column(data, 1)
        trig_time == TrigTime(timings, Column(data, 4), o.threshold_trig)
        n == IF ~ValidIndex(1, Len(trig_time)) THEN 0
             ELSE P1Len(Petco2Trim(Column(data, 2), timings,
                                   TrimTimeBegin(trig_time, o.delay)),
                        BaselineVols(o.baseline, o.samp_rate))
    IN  IF n <= 1 THEN {1} ELSE 1..(n - 1)

-----------------------------------------------------------------------------
(* evaluate, for one node, one sample and the timepoints tpts *)

\* tf.clip_by_value(x, lo, hi)
ClipByValue(x, lo, hi) == IF RLt(x, lo) THEN lo ELSE IF RLt(hi, x) THEN hi ELSE x

\* Sig0 with the offset defaulting to 1 when it is not inferred
Sig0DefaultOne(o, params) == IF o.infer_sig0 THEN PyGet(params, 1) ELSE RInt(1)

\* sig0 = params[extra_param] if self.infer_sig0 else 0
Sig0(o, params) == IF o.infer_sig0 THEN PyGet(params, 1) ELSE RInt(0)

\* extra_param when the delay is read
DelayParam(o) == IF o.infer_sig0 THEN 2 ELSE 1

\* TBase clipped to the length of the curve, not to its last index
TBaseClipToLen(t_delayed, n) == ClipByValue(RInt(RFloor(t_delayed)), RInt(0), RInt(n))

\* t_base = tf.clip_by_value(tf.floor(t_delayed), 0, len(self.co2_mmHg)-1)
TBase(t_delayed, n) == ClipByValue(RInt(RFloor(t_delayed)), RInt(0), RInt(n - 1))

\* TFrac without the clip
TFracUnclipped(t_delayed, t_base) == RSub(t_delayed, t_base)

\* t_frac = tf.clip_by_value(t_delayed - t_base, 0, 1)
TFrac(t_delayed, t_base) == ClipByValue(RSub(t_delayed, t_base), RInt(0), RInt(1))

\* t_base_idx for the timepoint t: the cast of the clipped floor with a
\* delay, the cast of the timepoint itself without
TBaseIdx(o, params, t, n) ==
    IF o.infer_delay
    THEN RTrunc(TBase(RSub(t, PyGet(params, DelayParam(o))), n))
    ELSE RTrunc(t)

\* Gather reading the index as 1-based
GatherOneBased(a, idx) == IF 1 <= idx /\ idx <= Len(a) THEN a[idx] ELSE RInt(0)

\* tf.gather(a, idx): a[idx] for idx in 0..len-1.  For any other idx the
\* CPU kernel raises and the GPU kernel yields 0; "zeros" is the latter
Gather(a, idx) == IF 0 <= idx /\ idx < Len(a) THEN a[idx + 1] ELSE RInt(0)

\* delayed_co2 for the timepoint t
DelayedCo2(o, params, t, curve, diff) ==
    LET idx == TBaseIdx(o, params, t, Len(curve))
    IN  IF o.infer_delay
        THEN LET t_delayed == RSub(t, PyGet(params, DelayParam(o)))
                 t_frac == TFrac(t_delayed, TBase(t_delayed, Len(curve)))
             IN  RAdd(Gather(curve, idx), RMul(t_frac, Gather(diff, idx)))
        ELSE Gather(curve, idx)

\* sig0 * (1 + cvr * delayed_co2 / 100)
Signal(sig0, cvr, delayed_co2) ==
    RMul(sig0, RAdd(RInt(1), RDiv(RMul(cvr, delayed_co2), RInt(100))))

NoCall ==
    [called |-> FALSE, params |-> <<>>, tpts |-> <<>>, t_base_idx |-> <<>>,
     t_frac |-> <<>>, delayed_co2 |-> <<>>, out |-> <<>>, error |-> "none"]

\* one call evaluate(params, tpts); kernel is "raise" or "zeros", what the
\* gather of this build does with an index outside the array
EvaluateCall(o, params, tpts, curve, diff, kernel) ==
    LET n == Len(curve)
        idx == [k \in 1..Len(tpts) |-> TBaseIdx(o, params, tpts[k], n)]
        frac == IF o.infer_delay
                THEN [k \in 1..Len(tpts) |->
                        LET t_delayed == RSub(tpts[k], PyGet(params, DelayParam(o)))
                        IN  TFrac(t_delayed, TBase(t_delayed, n))]
                ELSE <<>>
        call == [NoCall EXCEPT !.called = TRUE, !.params = params, !.tpts = tpts,
                               !.t_base_idx = idx, !.t_frac = frac]
    IN  IF kernel = "raise" /\ \E k \in 1..Len(tpts) : ~(0 <= idx[k] /\ idx[k] < n)
        THEN [call EXCEPT !.error = "InvalidArgumentError"]
        ELSE LET co2 == [k \in 1..Len(tpts) |-> DelayedCo2(o, params, tpts[k], curve, diff)]
             IN  [call EXCEPT !.delayed_co2 = co2,
                              !.out = [k \in 1..Len(tpts) |->
                                         Signal(Sig0(o, params), PyGet(params, 0), co2[k])]]

-----------------------------------------------------------------------------
(* Inputs *)

\* defaults of the options air_pressure and threshold_trig
AirPressure == 1020
ThresholdTrig == 3

\* PETCO2 readings, in percent: a breath of BreathRows rows, repeated, on a
\* level that rises by `step` half way through the recording
PetColumn(breath, step) ==
    [i \in 1..NumSamples |->
        RInt(breath[((i - 1) % BreathRows) + 1]
             + (IF i > NumSamples \div 2 THEN step ELSE 0))]

PetColumns == {PetColumn(breath, step) : breath \in [1..BreathRows -> 1..2], step \in 0..1}

\* the trigger channel with `count` trigger samples, `gap` rows apart, the
\* first in row `first`; the other rows are at the level low
TrigColumn(first, count, gap, low) ==
    [i \in 1..NumSamples |->
        IF \E k \in 0..(count - 1) : i = first + k * gap THEN RInt(5) ELSE RInt(low)]

TrigColumns ==
    {TrigColumn(first, count, gap, 0) :
        first \in 1..2, count \in {0, 1, 3, 4, 5}, gap \in 1..2}
    \cup {TrigColumn(1, 0, 1, ThresholdTrig)}

\* a recording sampled at samp_rate, with the columns petco2 and trig
Recording(samp_rate, petco2, trig) ==
    [i \in 1..NumSamples |-> <<Rat(i - 1, samp_rate), petco2[i], RInt(20), trig[i]>>]

OptionSets ==
    [baseline : {4}, blocksize_on : {2}, blocksize_off : {2}, samp_rate : {1},
     air_pressure : {AirPressure}, threshold_trig : {ThresholdTrig},
     delay : {0, 1}, infer_sig0 : BOOLEAN, infer_delay : BOOLEAN]

CvrVals == {RInt(1), RInt(2)}
Sig0Vals == {RInt(2)}
DelayVals == {RInt(-1), RInt(0), Rat(1, 2)}
TimeVals == {Rat(k, 2) : k \in (-2)..(2 * MaxTime)}

\* the parameter tensors evaluate is given: cvr, then sig0 and delay when
\* they are inferred
ParamSets(o) ==
    {<<cvr>> \o (IF o.infer_sig0 THEN <<sig0>> ELSE <<>>)
             \o (IF o.infer_delay THEN <<delay>> ELSE <<>>) :
        cvr \in CvrVals, sig0 \in Sig0Vals, delay \in DelayVals}

-----------------------------------------------------------------------------
(* The state machine *)

Init ==
    /\ pc = "new"
    /\ options \in OptionSets
    /\ \E petco2 \in PetColumns, trig \in TrigColumns :
           phys_data = Recording(options.samp_rate, petco2, trig)
    /\ error = "none"
    /\ attrs = {}
    /\ petco2_trim = <<>>
    /\ posmax = <<>>
    /\ winmax = <<>>
    /\ petco2_resamp = <<>>
    /\ co2_mmHg = <<>>
    /\ co2_diff = <<>>
    /\ normocap = NaN
    /\ hypercap = NaN
    /\ ev = NoCall

\* CvrPetCo2Model.__init__: _preproc_co2, then the parameter list
Construct ==
    /\ pc = "new"
    /\ \E pkloc \in PkLocs(phys_data, options) :
         LET r == PreprocCo2(phys_data, options, pkloc)
         IN  /\ pc' = IF r.error = "none" THEN "ready" ELSE "failed"
             /\ error' = r.error
             /\ attrs' = r.attrs
             /\ petco2_trim' = r.petco2_trim
             /\ posmax' = r.posmax
             /\ winmax' = r.winmax
             /\ petco2_resamp' = r.petco2_resamp
             /\ co2_mmHg' = r.co2_mmHg
             /\ co2_diff' = r.co2_diff
             /\ normocap' = r.normocap
             /\ hypercap' = r.hypercap
    /\ UNCHANGED <<phys_data, options, ev>>

\* EvaluateFrame with the gathered values assigned to self.co2_mmHg
EvaluateStoresGather ==
    /\ co2_mmHg' = ev'.delayed_co2
    /\ UNCHANGED <<pc, phys_data, options, error, attrs, petco2_trim, posmax, winmax,
                   petco2_resamp, co2_diff, normocap, hypercap>>

\* what evaluate does to the attributes of the object: it assigns locals only
EvaluateFrame ==
    UNCHANGED <<pc, phys_data, options, error, attrs, petco2_trim, posmax, winmax,
                petco2_resamp, co2_mmHg, co2_diff, normocap, hypercap>>

\* CvrPetCo2Model.evaluate, called by the inference loop.  The tensors have
\* one node, one sample and one timepoint: every operation of evaluate acts
\* on each (node, sample, timepoint) element on its own
Evaluate ==
    /\ pc = "ready"
    /\ ~ev.called
    /\ \E params \in ParamSets(options), t \in TimeVals, kernel \in {"raise", "zeros"} :
         ev' = EvaluateCall(options, params, <<t>>, co2_mmHg, co2_diff, kernel)
    /\ EvaluateFrame

\* the caller is done with the result of the call; the tensors of the call
\* are gone and the next call starts afresh
Discard ==
    /\ ev.called
    /\ ev' = NoCall
    /\ UNCHANGED <<pc, phys_data, options, error, attrs, petco2_trim, posmax, winmax,
                   petco2_resamp, co2_mmHg, co2_diff, normocap, hypercap>>

Next == Construct \/ Evaluate \/ Discard

Spec == Init /\ [][Next]_vars

-----------------------------------------------------------------------------
(* Properties *)

\* the call in ev returned a value
Returned == ev.called /\ ev.error = "none"

\* the delayed time of timepoint k of the call in ev (infer_delay set)
EvTDelayed(k) == RSub(ev.tpts[k], PyGet(ev.params, DelayParam(options)))

CurveLen == Len(co2_mmHg)

IndexInCurve(i) == 0 <= i /\ i < CurveLen

\* C1: with infer_delay set, evaluate raises nothing, and a delayed time at
\* or below 0 samples curve[0], one at or above length-1 samples
\* curve[length-1], however far out it lies.
C1_Saturates ==
    (ev.called /\ options.infer_delay) =>
        /\ ev.error = "none"
        /\ \A k \in 1..Len(ev.tpts) :
            /\ RLe(EvTDelayed(k), RInt(0)) => ev.delayed_co2[k] = co2_mmHg[1]
            /\ RLe(RInt(CurveLen - 1), EvTDelayed(k))
                   => ev.delayed_co2[k] = co2_mmHg[CurveLen]

\* a delayed time a whole step or more beyond the end of a curve that is
\* not flat
C1_Witness ==
    /\ Returned /\ options.infer_delay
    /\ RLe(RInt(CurveLen), EvTDelayed(1))
    /\ co2_mmHg[1] # co2_mmHg[CurveLen]

\* C2, as claimed: no call of evaluate fails and every gather index is in
\* 0..length-1, with or without a delay.
C2_NeverOutOfRange ==
    ev.called =>
        /\ ev.error = "none"
        /\ \A k \in 1..Len(ev.tpts) : IndexInCurve(ev.t_base_idx[k])

\* C2, amended: with infer_delay set the gather index is clamped into
\* 0..length-1 and the call does not fail; without it the index is the
\* integer cast of the timepoint, unclamped, and the call fails only on an
\* index outside 0..length-1.
C2_ClampedOnlyWithDelay ==
    ev.called =>
        /\ options.infer_delay =>
            /\ ev.error = "none"
            /\ \A k \in 1..Len(ev.tpts) : IndexInCurve(ev.t_base_idx[k])
        /\ ~options.infer_delay =>
            /\ \A k \in 1..Len(ev.tpts) : ev.t_base_idx[k] = RTrunc(ev.tpts[k])
            /\ ev.error # "none" =>
                   \E k \in 1..Len(ev.tpts) : ~IndexInCurve(ev.t_base_idx[k])

\* a call without delay at a timepoint past the end of the curve, failing
C2_Witness ==
    /\ ev.called /\ ~options.infer_delay
    /\ ev.t_base_idx[1] >= CurveLen
    /\ ev.error = "InvalidArgumentError"

\* C3: at an integer timepoint i in 0..length-1, with delay 0 or without
\* delay, the sampled CO2 value is curve[i].
C3_IntegerTimepoints ==
    Returned =>
        \A k \in 1..Len(ev.tpts) :
            (/\ ev.tpts[k][2] = 1
             /\ IndexInCurve(ev.tpts[k][1])
             /\ options.infer_delay => EvTDelayed(k) = ev.tpts[k])
                => ev.delayed_co2[k] = co2_mmHg[ev.tpts[k][1] + 1]

\* delay 0 given, at an interior index whose curve value differs from its
\* neighbour's
C3_Witness ==
    /\ Returned /\ options.infer_delay
    /\ PyGet(ev.params, DelayParam(options)) = RInt(0)
    /\ ev.tpts[1] = RInt(1)
    /\ co2_mmHg[2] # co2_mmHg[1] /\ co2_mmHg[2] # co2_mmHg[3]

\* no row of the trigger channel exceeds threshold_trig
NoTrigger ==
    \A i \in 1..Len(phys_data) : ~RLt(RInt(options.threshold_trig), phys_data[i][4])

CalibratedAttrs == {"co2_mmHg", "co2_diff", "normocap", "hypercap"}

\* C4, as claimed: without a trigger the constructor fails with a
\* CalibrationError and sets no curve, difference array or reference level.
C4_CalibrationError ==
    (pc # "new" /\ NoTrigger) =>
        /\ error = "CalibrationError"
        /\ attrs \cap CalibratedAttrs = {}

\* C4, amended: without a trigger the constructor fails with the IndexError
\* of trig_time[1] and sets no curve, difference array or reference level.
C4_IndexError ==
    (pc # "new" /\ NoTrigger) =>
        /\ pc = "failed"
        /\ error = "IndexError"
        /\ attrs \cap CalibratedAttrs = {}

\* a recording whose trigger channel sits at the threshold, never above
C4_Witness ==
    /\ pc = "failed" /\ NoTrigger
    /\ \A i \in 1..Len(phys_data) : phys_data[i][4] = RInt(options.threshold_trig)

\* the time of the earliest row whose trigger value exceeds threshold_trig
FirstTriggerTime ==
    LET rows == {i \in 1..Len(phys_data) :
                    RLt(RInt(options.threshold_trig), phys_data[i][4])}
    IN  phys_data[CHOOSE i \in rows : \A j \in rows : i <= j][1]

\* C5: the trimmed trace is the PETCO2 readings of exactly the rows at or
\* after first_trigger_time - delay.
C5_TrimFromFirstTrigger ==
    "petco2_trim" \in attrs =>
        petco2_trim =
            Masked(Column(phys_data, 2),
                   [i \in 1..Len(phys_data) |->
                       RLe(RSub(FirstTriggerTime, RInt(options.delay)), phys_data[i][1])])

\* C6: the difference array is as long as the curve, diff[i] is
\* curve[i+1] - curve[i] below the last index and 0 at the last index, so a
\* sample taken at the last index is curve[length-1].
C6_Differences ==
    pc = "ready" =>
        /\ Len(co2_diff) = CurveLen
        /\ \A i \in 1..(CurveLen - 1) : co2_diff[i] = RSub(co2_mmHg[i + 1], co2_mmHg[i])
        /\ co2_diff[CurveLen] = RInt(0)
        /\ (Returned /\ options.infer_delay) =>
              \A k \in 1..Len(ev.tpts) :
                  ev.t_base_idx[k] = CurveLen - 1
                      => ev.delayed_co2[k] = co2_mmHg[CurveLen]

\* a curve of three or more volumes with a step in it, sampled at its last
\* index with a non-zero fraction
C6_Witness ==
    /\ pc = "ready" /\ CurveLen >= 3
    /\ \E i \in 1..(CurveLen - 1) : co2_diff[i] # RInt(0)
    /\ Returned /\ options.infer_delay
    /\ ev.t_base_idx[1] = CurveLen - 1
    /\ ev.t_frac[1] # RInt(0)

\* C7: once the constructor has returned, no step changes the curve, the
\* difference array or the reference levels.
C7_CurveFrozen ==
    [][pc = "ready" =>
          /\ co2_mmHg' = co2_mmHg
          /\ co2_diff' = co2_diff
          /\ normocap' = normocap
          /\ hypercap' = hypercap]_vars

\* evaluate has returned a non-zero signal, with both parameters inferred
C7_Witness ==
    /\ Returned /\ options.infer_sig0 /\ options.infer_delay
    /\ ev.out[1] # RInt(0)
    /\ ~IsNaN(normocap) /\ ~IsNaN(hypercap)

\* C8, as claimed: when floor(t - delay) >= length-1 the fraction is 0.
C8_FractionZeroAtEnd ==
    (ev.called /\ options.infer_delay) =>
        \A k \in 1..Len(ev.tpts) :
            RFloor(EvTDelayed(k)) >= CurveLen - 1 => ev.t_frac[k] = RInt(0)

\* C8, amended: when floor(t - delay) >= length-1 the base index is
\* length-1 and the fraction is (t - delay) - (length-1) capped at 1, which
\* may be non-zero; the product of the fraction and the gathered difference
\* is 0 because the last difference element is 0.
C8_FractionCappedAtEnd ==
    (ev.called /\ options.infer_delay) =>
        \A k \in 1..Len(ev.tpts) :
            RFloor(EvTDelayed(k)) >= CurveLen - 1 =>
                LET over == RSub(EvTDelayed(k), RInt(CurveLen - 1))
                IN  /\ ev.t_base_idx[k] = CurveLen - 1
                    /\ ev.t_frac[k] = IF RLt(RInt(1), over) THEN RInt(1) ELSE over
                    /\ RMul(ev.t_frac[k], co2_diff[ev.t_base_idx[k] + 1]) = RInt(0)

\* a delayed time half a step past the last index of a curve that is not flat
C8_Witness ==
    /\ Returned /\ options.infer_delay
    /\ EvTDelayed(1) = Rat(2 * CurveLen - 1, 2)
    /\ ev.t_frac[1] = Rat(1, 2)
    /\ co2_mmHg[1] # co2_mmHg[CurveLen]

\* C9: when the constructor returns, having found at least one window, the
\* envelope is as long as the trimmed trace, holds the first peak value before the first peak, the last peak
\* value from the last peak on, and lies on the straight line between each
\* two consecutive peaks.
C9_Envelope ==
    (pc = "ready" /\ Len(posmax) >= 1) =>
        LET w == Len(posmax)
        IN  /\ Len(petco2_resamp) = Len(petco2_trim)
            /\ \A k \in 0..(Len(petco2_resamp) - 1) :
                /\ k < posmax[1] => petco2_resamp[k + 1] = winmax[1]
                /\ k >= posmax[w] => petco2_resamp[k + 1] = winmax[w]
                /\ \A x \in 1..(w - 1) :
                    (posmax[x] <= k /\ k <= posmax[x + 1]) =>
                        RMul(RSub(petco2_resamp[k + 1], winmax[x]),
                             RInt(posmax[x + 1] - posmax[x]))
                        = RMul(RSub(winmax[x + 1], winmax[x]), RInt(k - posmax[x]))

\* C10: without infer_sig0 every value evaluate returns is 0.
C10_ZeroWithoutSig0 ==
    (Returned /\ ~options.infer_sig0) =>
        \A k \in 1..Len(ev.out) : ev.out[k] = RInt(0)

\* a call without infer_sig0, cvr 2, sampling a non-zero CO2 value
C10_Witness ==
    /\ Returned /\ ~options.infer_sig0
    /\ PyGet(ev.params, 0) = RInt(2)
    /\ ev.delayed_co2[1] # RInt(0)
    /\ Len(ev.out) = 1

====
